---- MODULE Spec2Model ----
(***************************************************************************)
(* LocalFileEvalStore (genkit-tools/common/src/eval/localFileEvalStore.ts) *)
(* as a state machine: a directory of record files "<evalRunId>.json" and  *)
(* the index log "index.txt", one serialized key per line.                 *)
(*                                                                         *)
(* Text is modelled character by character: a string is a sequence of      *)
(* one-character strings, a file is the string it holds.                   *)
(***************************************************************************)
EXTENDS Integers, Sequences, FiniteSets, TLC

VARIABLES
    fs,               \* the files under storeRoot: file name -> content
    rootExists,       \* whether the directory storeRoot exists
    cachedEvalStore,  \* static cachedEvalStore: 0 is null, n > 0 the n-th instance built
    nInstances,       \* number of LocalFileEvalStore objects built so far (object identity)
    last,             \* the call that completed last, with its outcome
    savesOnly,        \* history: whether completed save calls alone have written files
    savedLog,         \* history: while savesOnly, the keys of those calls in call order
    everSaved,        \* history: the evalRunIds this process has saved
    lastGot,          \* history: the instance the latest getEvalStore() returned (0: none yet)
    resetSince,       \* history: whether reset() ran since that getEvalStore()
    crashes,          \* number of process interruptions so far
    calls             \* the calls in flight, each with the step it has reached

vars == <<fs, rootExists, cachedEvalStore, nInstances, last, savedLog, savesOnly,
          everSaved, lastGot, resetSince, crashes, calls>>

----------------------------------------------------------------------------
(* Bounds of the model *)

\* save is offered while the index log holds fewer lines than this
MaxLines == 3
\* getEvalStore() builds an instance while fewer than this were built
MaxInstances == 2
\* process interruptions offered in SpecCrash
MaxCrashes == 1
\* a call is interrupted while the index log holds fewer lines than this
MaxCrashLines == 2

----------------------------------------------------------------------------
(* Characters and strings *)

LF == "\n"
QUOTE == "\""
BACKSLASH == "\\"

\* private readonly INDEX_DELIMITER = '\n'
INDEX_DELIMITER == <<LF>>

\* evalRunId values: filename-safe identifiers
RunIds == { <<"a">>, <<"b">> }

\* actionRef values: the empty string, and one that holds a line feed
ActionRefs == { <<>>, <<"x", LF>> }

\* the payload of a run beyond its key, opaque to the store
Payloads == { <<"p">>, <<"q", QUOTE>> }

\* EvalRunKey: the fields this store reads
EvalRunKeys == [evalRunId : RunIds, actionRef : ActionRefs]

\* EvalRun: a key plus payload.  The runs callers save: every key, run "a"
\* with either payload
EvalRuns ==
    {r \in [key : EvalRunKeys, results : Payloads] :
        r.key.evalRunId = <<"a">> \/ r.results = <<"p">>}

RECURSIVE Flatten(_)
\* the concatenation of a sequence of strings
Flatten(ss) == IF ss = <<>> THEN <<>> ELSE Head(ss) \o Flatten(Tail(ss))

\* mutant: text put between quotes as it is, nothing escaped
EscapeCharNone(c) == <<c>>

\* JSON.stringify of one character inside a string literal
EscapeChar(c) ==
    IF c = LF THEN <<BACKSLASH, "n">>
    ELSE IF c = QUOTE THEN <<BACKSLASH, QUOTE>>
    ELSE IF c = BACKSLASH THEN <<BACKSLASH, BACKSLASH>>
    ELSE <<c>>

\* JSON.stringify of a string value: quoted, with its characters escaped
JSONstringifyString(s) ==
    <<QUOTE>> \o Flatten([i \in 1..Len(s) |-> EscapeChar(s[i])]) \o <<QUOTE>>

\* JSON.stringify(evalRun.key): {"evalRunId":"..","actionRef":".."}
JSONstringifyKey(k) ==
    <<"{", QUOTE, "e","v","a","l","R","u","n","I","d", QUOTE, ":">>
    \o JSONstringifyString(k.evalRunId)
    \o <<",", QUOTE, "a","c","t","i","o","n","R","e","f", QUOTE, ":">>
    \o JSONstringifyString(k.actionRef)
    \o <<"}">>

\* JSON.stringify(evalRun): {"key":{..},"results":".."}
JSONstringifyRun(r) ==
    <<"{", QUOTE, "k","e","y", QUOTE, ":">>
    \o JSONstringifyKey(r.key)
    \o <<",", QUOTE, "r","e","s","u","l","t","s", QUOTE, ":">>
    \o JSONstringifyString(r.results)
    \o <<"}">>

\* the outcome of a parse that fails (JSON.parse or the schema throws)
ParseFailure == [ok |-> FALSE]

RECURSIVE parseStringBody(_, _, _)
\* JSON.parse inside a string literal, from position i of s with `value`
\* read so far: up to the closing quote, escapes undone; an unescaped line
\* feed, an unknown escape and the end of the text are syntax errors
parseStringBody(s, i, value) ==
    IF i > Len(s) THEN ParseFailure
    ELSE IF s[i] = QUOTE THEN [ok |-> TRUE, value |-> value, next |-> i + 1]
    ELSE IF s[i] = LF THEN ParseFailure
    ELSE IF s[i] = BACKSLASH
         THEN IF i + 1 > Len(s) THEN ParseFailure
              ELSE IF s[i + 1] = "n" THEN parseStringBody(s, i + 2, Append(value, LF))
              ELSE IF s[i + 1] \in {QUOTE, BACKSLASH}
                   THEN parseStringBody(s, i + 2, Append(value, s[i + 1]))
                   ELSE ParseFailure
    ELSE parseStringBody(s, i + 1, Append(value, s[i]))

\* JSON.parse of a string literal at position i of s
parseString(s, i) ==
    IF i <= Len(s) /\ s[i] = QUOTE THEN parseStringBody(s, i + 1, <<>>)
    ELSE ParseFailure

\* whether the text `literal` stands at position i of s
at(s, i, literal) ==
    /\ i + Len(literal) - 1 <= Len(s)
    /\ SubSeq(s, i, i + Len(literal) - 1) = literal

\* JSON.parse of an object with two string members named m1 and m2, at
\* position i of s.  (JSON.parse accepts more: white space, other members
\* and orders; the store writes only what JSON.stringify produces.)
parseObject2(s, i, m1, m2) ==
    LET open == <<"{", QUOTE>> \o m1 \o <<QUOTE, ":">>
        sep == <<",", QUOTE>> \o m2 \o <<QUOTE, ":">>
    IN  IF ~at(s, i, open) THEN ParseFailure
        ELSE LET v1 == parseString(s, i + Len(open))
             IN  IF ~v1.ok \/ ~at(s, v1.next, sep) THEN ParseFailure
                 ELSE LET v2 == parseString(s, v1.next + Len(sep))
                      IN  IF ~v2.ok \/ ~at(s, v2.next, <<"}">>) THEN ParseFailure
                          ELSE [ok |-> TRUE, first |-> v1.value,
                                second |-> v2.value, next |-> v2.next + 1]

\* the key object at position i of s
parseKeyAt(s, i) ==
    LET o == parseObject2(s, i, <<"e","v","a","l","R","u","n","I","d">>,
                          <<"a","c","t","i","o","n","R","e","f">>)
    IN  IF ~o.ok THEN ParseFailure
        ELSE [ok |-> TRUE, next |-> o.next,
              key |-> [evalRunId |-> o.first, actionRef |-> o.second]]

\* EvalRunKeySchema.parse(JSON.parse(line)): the key, or the failure
parseLineToKey(line) ==
    LET k == parseKeyAt(line, 1)
    IN  IF k.ok /\ k.next = Len(line) + 1 THEN [ok |-> TRUE, key |-> k.key]
        ELSE ParseFailure

\* EvalRunSchema.parse(JSON.parse(data)): the run, or the failure
parseRun(data) ==
    LET open == <<"{", QUOTE, "k","e","y", QUOTE, ":">>
        sep == <<",", QUOTE, "r","e","s","u","l","t","s", QUOTE, ":">>
    IN  IF ~at(data, 1, open) THEN ParseFailure
        ELSE LET k == parseKeyAt(data, 1 + Len(open))
             IN  IF ~k.ok \/ ~at(data, k.next, sep) THEN ParseFailure
                 ELSE LET v == parseString(data, k.next + Len(sep))
                      IN  IF v.ok /\ at(data, v.next, <<"}">>) /\ v.next = Len(data)
                          THEN [ok |-> TRUE, run |-> [key |-> k.key, results |-> v.value]]
                          ELSE ParseFailure

\* the positions of the delimiter in a string
delimiterPositions(s) == {i \in 1..Len(s) : s[i] = LF}

\* String.prototype.split(INDEX_DELIMITER): the pieces between delimiters,
\* the empty ones included ("".split gives one empty piece)
split(s) ==
    LET seps == delimiterPositions(s)
        n == Cardinality(seps)
        \* the k-th delimiter; 0 and Len(s) + 1 stand for the two ends
        cut(k) == IF k = 0 THEN 0
                  ELSE IF k = n + 1 THEN Len(s) + 1
                  ELSE CHOOSE i \in seps : Cardinality({j \in seps : j < i}) = k - 1
    IN  [k \in 1..(n + 1) |-> SubSeq(s, cut(k - 1) + 1, cut(k) - 1)]

\* data.slice(0, -1): all but the last character
sliceLast(s) == SubSeq(s, 1, Len(s) - 1)

\* the lines the readline interface yields for a file: the pieces between
\* line feeds; a line feed at the end of the file starts no further line
readlineLines(data) ==
    LET pieces == split(data)
    IN  IF pieces[Len(pieces)] = <<>> THEN SubSeq(pieces, 1, Len(pieces) - 1)
        ELSE pieces

\* the number of those lines
lineCount(data) ==
    Cardinality(delimiterPositions(data))
    + (IF data # <<>> /\ data[Len(data)] # LF THEN 1 ELSE 0)

RECURSIVE join(_)
\* entries.join(INDEX_DELIMITER)
join(entries) ==
    IF entries = <<>> THEN <<>>
    ELSE IF Len(entries) = 1 THEN entries[1]
    ELSE entries[1] \o INDEX_DELIMITER \o join(Tail(entries))

----------------------------------------------------------------------------
(* Paths *)

\* generateFileName: `${evalRunId}.json`
generateFileName(evalRunId) == evalRunId \o <<".", "j", "s", "o", "n">>

\* getIndexFilePath: 'index.txt' under storeRoot
indexFile == <<"i", "n", "d", "e", "x", ".", "t", "x", "t">>

\* fs.existsSync
existsSync(files, name) == name \in DOMAIN files

\* writeFile: create or overwrite
writeFile(files, name, data) ==
    [n \in DOMAIN files \cup {name} |-> IF n = name THEN data ELSE files[n]]

\* mutant: the file is opened for writing, not for appending
appendFileTruncating(files, name, data) ==
    [n \in DOMAIN files \cup {name} |-> IF n = name THEN data ELSE files[n]]

\* appendFile: create, or add at the end
appendFile(files, name, data) ==
    [n \in DOMAIN files \cup {name} |->
        IF n = name THEN (IF name \in DOMAIN files THEN files[name] ELSE <<>>) \o data
        ELSE files[n]]

\* unlink
unlink(files, name) == [n \in DOMAIN files \ {name} |-> files[n]]

----------------------------------------------------------------------------
(* Pure parts of the operations *)

\* what a caller passes to list: no query (or one without actionRef), or
\* query.filter.actionRef = f
NoQuery == [hasActionRef |-> FALSE, actionRef |-> <<>>]
Queries == {NoQuery} \cup [hasActionRef : {TRUE}, actionRef : ActionRefs]

\* JavaScript truthiness of query?.filter?.actionRef: undefined and the
\* empty string are falsy
truthy(query) == query.hasActionRef /\ query.actionRef # <<>>

\* mutant: a line that does not parse is skipped instead of failing the call
readKeysSkippingMalformed(data) ==
    IF data = <<>> THEN [ok |-> TRUE, evalRunKeys |-> <<>>]
    ELSE LET lines == split(sliceLast(data))
             parses(line) == parseLineToKey(line).ok
             good == SelectSeq(lines, parses)
         IN  [ok |-> TRUE,
              evalRunKeys |-> [i \in 1..Len(good) |-> parseLineToKey(good[i]).key]]

\* mutant: no early return for the empty index log
readKeysNoEmptyCheck(data) ==
    LET lines == split(sliceLast(data))
        parsed == [i \in 1..Len(lines) |-> parseLineToKey(lines[i])]
    IN  IF \E i \in 1..Len(parsed) : ~parsed[i].ok
        THEN [ok |-> FALSE, error |-> "MalformedData"]
        ELSE [ok |-> TRUE,
              evalRunKeys |-> [i \in 1..Len(parsed) |-> parsed[i].key]]

\* the first part of list: read the index log and parse every line
readKeys(data) ==
    IF data = <<>> THEN [ok |-> TRUE, evalRunKeys |-> <<>>]
    ELSE LET lines == split(sliceLast(data))
             parsed == [i \in 1..Len(lines) |-> parseLineToKey(lines[i])]
         IN  IF \E i \in 1..Len(parsed) : ~parsed[i].ok
             THEN [ok |-> FALSE, error |-> "MalformedData"]
             ELSE [ok |-> TRUE,
                   evalRunKeys |-> [i \in 1..Len(parsed) |-> parsed[i].key]]

\* keys.filter((key) => key.actionRef === query?.filter?.actionRef)
filterKeys(keys, query) ==
    LET matches(key) == key.actionRef = query.actionRef
    IN  SelectSeq(keys, matches)

\* list(query) on the files `files`: the response, or the failure
list(files, query) ==
    LET keys == readKeys(files[indexFile])
    IN  IF ~keys.ok THEN keys
        ELSE IF truthy(query)
             THEN [ok |-> TRUE, evalRunKeys |-> filterKeys(keys.evalRunKeys, query)]
             ELSE keys

\* load(evalRunId) on the files `files`
load(files, evalRunId) ==
    LET filePath == generateFileName(evalRunId)
    IN  IF ~existsSync(files, filePath) THEN [status |-> "absent"]
        ELSE LET parsed == parseRun(files[filePath])
             IN  IF parsed.ok THEN [status |-> "ok", run |-> parsed.run]
                 ELSE [status |-> "MalformedData"]

\* mutant: the line text, not the parsed evalRunId, is compared with the
\* id, so every line is retained
retainedEntriesComparingLine(data, evalRunId) ==
    LET lines == readlineLines(data)
        parsed == [i \in 1..Len(lines) |-> parseLineToKey(lines[i])]
        keep(line) == line # evalRunId
    IN  IF \E i \in 1..Len(parsed) : ~parsed[i].ok
        THEN ParseFailure
        ELSE [ok |-> TRUE, entries |-> SelectSeq(lines, keep)]

\* the read pass of deleteEvalRunFromIndex: the lines to retain, or the
\* failure of the first line that does not parse
retainedEntries(data, evalRunId) ==
    LET lines == readlineLines(data)
        parsed == [i \in 1..Len(lines) |-> parseLineToKey(lines[i])]
        keep(line) == parseLineToKey(line).key.evalRunId # evalRunId
    IN  IF \E i \in 1..Len(parsed) : ~parsed[i].ok
        THEN ParseFailure
        ELSE [ok |-> TRUE, entries |-> SelectSeq(lines, keep)]

\* the text deleteEvalRunFromIndex writes:
\* entries.join(INDEX_DELIMITER) + INDEX_DELIMITER
rewrittenIndex(entries) == join(entries) \o INDEX_DELIMITER

\* mutant: the index log is read before the record file is unlinked, so a
\* line that does not parse fails the call with no file touched
deleteReadingFirst(files, evalRunId) ==
    LET filePath == generateFileName(evalRunId)
        unlinked == unlink(files, filePath)
        retained == retainedEntries(files[indexFile], evalRunId)
    IN  IF ~existsSync(files, filePath)
        THEN [error |-> "NotFound", files |-> files]
        ELSE IF ~retained.ok
             THEN [error |-> "MalformedData", files |-> files]
             ELSE [error |-> "none",
                   files |-> writeFile(unlinked, indexFile,
                                       rewrittenIndex(retained.entries))]

\* mutant: a missing record file is skipped over instead of reported
deleteIgnoringMissing(files, evalRunId) ==
    LET filePath == generateFileName(evalRunId)
        unlinked == unlink(files, filePath)
        retained == retainedEntries(files[indexFile], evalRunId)
    IN  IF ~retained.ok
        THEN [error |-> "MalformedData", files |-> unlinked]
        ELSE [error |-> "none",
              files |-> writeFile(unlinked, indexFile,
                                  rewrittenIndex(retained.entries))]

\* delete(evalRunId) on the files `files`: how the call ends and the files
\* it leaves.  Not Found without a record file; else the record file is
\* unlinked and the index log rebuilt (deleteEvalRunFromIndex), which fails
\* before it writes when a line does not parse
delete(files, evalRunId) ==
    LET filePath == generateFileName(evalRunId)
        unlinked == unlink(files, filePath)
        retained == retainedEntries(files[indexFile], evalRunId)
    IN  IF ~existsSync(files, filePath)
        THEN [error |-> "NotFound", files |-> files]
        ELSE IF ~retained.ok
             THEN [error |-> "MalformedData", files |-> unlinked]
             ELSE [error |-> "none",
                   files |-> writeFile(unlinked, indexFile,
                                       rewrittenIndex(retained.entries))]

\* the lines of the index log, as a line reader yields them, that are no
\* serialized key
malformedLines(data) ==
    {i \in 1..Len(readlineLines(data)) : ~parseLineToKey(readlineLines(data)[i]).ok}

\* the evalRunIds that have an entry in the index log
idsInIndex(data) ==
    {parseLineToKey(readlineLines(data)[i]).key.evalRunId :
        i \in 1..Len(readlineLines(data)) \ malformedLines(data)}

\* the evalRunIds that have a record file
idsWithRecord(files) == {id \in RunIds : existsSync(files, generateFileName(id))}

\* the files after save(evalRun): the record file written, the key appended
saveFiles(files, evalRun) ==
    appendFile(
        writeFile(files, generateFileName(evalRun.key.evalRunId),
                  JSONstringifyRun(evalRun)),
        indexFile,
        JSONstringifyKey(evalRun.key) \o INDEX_DELIMITER)

----------------------------------------------------------------------------
(* Operations, each call run to completion.  The constructor is private:  *)
(* callers reach save, load, list and delete through getEvalStore(), so    *)
(* these are offered while an instance is cached.  Every instance works on *)
(* the same storeRoot.                                                     *)

\* the callers whose calls may be in flight together
Procs == {"p", "q"}

\* no call in flight
Idle == [op |-> "idle", pc |-> "idle"]

Init ==
    /\ fs = << >>
    /\ rootExists = FALSE
    /\ cachedEvalStore = 0
    /\ nInstances = 0
    /\ last = [op |-> "none"]
    /\ savedLog = << >>
    /\ savesOnly = TRUE
    /\ everSaved = {}
    /\ lastGot = 0
    /\ resetSince = FALSE
    /\ crashes = 0
    /\ calls = [p \in Procs |-> Idle]

\* mutant: the constructor writes the index log empty in every case
constructedTruncating(files) == writeFile(files, indexFile, <<>>)

\* the files after the constructor ran: mkdirSync(storeRoot), and the index
\* log written empty if it does not exist
constructed(files) ==
    IF ~existsSync(files, indexFile) THEN writeFile(files, indexFile, <<>>)
    ELSE files

\* static getEvalStore()
GetEvalStore ==
    /\ IF cachedEvalStore = 0
       THEN /\ nInstances < MaxInstances
            /\ nInstances' = nInstances + 1
            /\ cachedEvalStore' = nInstances + 1
            /\ rootExists' = TRUE
            /\ fs' = constructed(fs)
       ELSE UNCHANGED <<nInstances, cachedEvalStore, rootExists, fs>>
    /\ last' = [op |-> "getEvalStore", instance |-> cachedEvalStore',
                built |-> cachedEvalStore = 0,
                createdIndex |-> ~existsSync(fs, indexFile)]
    /\ lastGot' = cachedEvalStore'
    /\ resetSince' = FALSE
    /\ UNCHANGED <<calls, savedLog, savesOnly, everSaved, crashes>>

\* mutant: reset() leaves the cached instance in place
ResetKeepingCache ==
    /\ last' = [op |-> "reset"]
    /\ resetSince' = TRUE
    /\ UNCHANGED <<calls, fs, rootExists, cachedEvalStore, nInstances, savedLog, savesOnly,
                   everSaved, lastGot, crashes>>

\* static reset()
Reset ==
    /\ cachedEvalStore' = 0
    /\ last' = [op |-> "reset"]
    /\ resetSince' = TRUE
    /\ UNCHANGED <<calls, fs, rootExists, nInstances, savedLog, savesOnly, everSaved,
                   lastGot, crashes>>

\* save(evalRun)
Save(evalRun) ==
    /\ cachedEvalStore # 0
    /\ lineCount(fs[indexFile]) < MaxLines
    /\ fs' = saveFiles(fs, evalRun)
    /\ last' = [op |-> "save", run |-> evalRun]
    /\ savedLog' = IF savesOnly THEN Append(savedLog, evalRun.key) ELSE savedLog
    /\ everSaved' = everSaved \cup {evalRun.key.evalRunId}
    /\ UNCHANGED <<calls, rootExists, cachedEvalStore, nInstances, savesOnly, lastGot,
                   resetSince, crashes>>

\* load(evalRunId)
Load(evalRunId) ==
    /\ cachedEvalStore # 0
    /\ last' = [op |-> "load", evalRunId |-> evalRunId, result |-> load(fs, evalRunId)]
    /\ UNCHANGED <<calls, fs, rootExists, cachedEvalStore, nInstances, savedLog, savesOnly,
                   everSaved, lastGot, resetSince, crashes>>

\* mutant: list writes the index log back without its last character
ListTrimmingIndex(query) ==
    /\ cachedEvalStore # 0
    /\ last' = [op |-> "list", query |-> query, result |-> list(fs, query)]
    /\ fs' = writeFile(fs, indexFile, sliceLast(fs[indexFile]))
    /\ UNCHANGED <<calls, rootExists, cachedEvalStore, nInstances, savedLog, savesOnly,
                   everSaved, lastGot, resetSince, crashes>>

\* list(query)
List(query) ==
    /\ cachedEvalStore # 0
    /\ last' = [op |-> "list", query |-> query, result |-> list(fs, query)]
    /\ UNCHANGED <<calls, fs, rootExists, cachedEvalStore, nInstances, savedLog, savesOnly,
                   everSaved, lastGot, resetSince, crashes>>

\* delete(evalRunId)
Delete(evalRunId) ==
    /\ cachedEvalStore # 0
    /\ fs' = delete(fs, evalRunId).files
    /\ last' = [op |-> "delete", evalRunId |-> evalRunId,
                error |-> delete(fs, evalRunId).error]
    /\ IF existsSync(fs, generateFileName(evalRunId))
       THEN savesOnly' = FALSE /\ savedLog' = << >>
       ELSE UNCHANGED <<savesOnly, savedLog>>
    /\ UNCHANGED <<calls, rootExists, cachedEvalStore, nInstances, everSaved, lastGot,
                   resetSince, crashes>>

Next ==
    \/ GetEvalStore
    \/ Reset
    \/ \E evalRun \in EvalRuns : Save(evalRun)
    \/ \E evalRunId \in RunIds : Load(evalRunId)
    \/ \E query \in Queries : List(query)
    \/ \E evalRunId \in RunIds : Delete(evalRunId)

Spec == Init /\ [][Next]_vars

----------------------------------------------------------------------------
(* Process interruptions.  An interrupted call leaves the files as far as  *)
(* it had written them; the next process starts with no cached instance.  *)

\* where an interrupted write of `text` may stop: before the first
\* character, half way, and before the last one
cuts(text) == {0, Len(text) \div 2, Len(text) - 1} \cap (0..(Len(text) - 1))

\* the state of the process after the interruption `interrupted` of a call
Crashed(interrupted) ==
    /\ crashes < MaxCrashes
    /\ crashes' = crashes + 1
    /\ cachedEvalStore' = 0
    /\ nInstances' = 0
    /\ lastGot' = 0
    /\ resetSince' = FALSE
    /\ last' = interrupted
    /\ savesOnly' = FALSE
    /\ savedLog' = << >>
    /\ everSaved' = {}
    /\ UNCHANGED <<rootExists, calls>>

\* what is known of an interrupted save(evalRun): the number of characters
\* of the index line it had appended, and whether the index log held an
\* entry of the evalRunId before the call
interruptedSave(evalRun, n) ==
    [op |-> "crash", during |-> "save", run |-> evalRun, appended |-> n,
     hadEntry |-> evalRun.key.evalRunId \in idsInIndex(fs[indexFile])]

\* mutant: save appends the key first; it is interrupted after the append,
\* before the record file is written
SaveCrashAppendFirst(evalRun) ==
    LET text == JSONstringifyKey(evalRun.key) \o INDEX_DELIMITER
    IN  /\ cachedEvalStore # 0
        /\ lineCount(fs[indexFile]) < MaxCrashLines
        /\ fs' = appendFile(fs, indexFile, text)
        /\ Crashed(interruptedSave(evalRun, Len(text)))

\* save(evalRun) interrupted after the record file was written, with the
\* first n characters of the index line appended
SaveCrash(evalRun) ==
    LET text == JSONstringifyKey(evalRun.key) \o INDEX_DELIMITER
    IN  /\ cachedEvalStore # 0
        /\ lineCount(fs[indexFile]) < MaxCrashLines
        /\ \E n \in cuts(text) :
               /\ fs' = appendFile(
                            writeFile(fs, generateFileName(evalRun.key.evalRunId),
                                      JSONstringifyRun(evalRun)),
                            indexFile, SubSeq(text, 1, n))
               /\ Crashed(interruptedSave(evalRun, n))

\* delete(evalRunId) interrupted after the unlink: before the index log is
\* opened for writing, or with the first n characters of the new index log
\* written
DeleteCrash(evalRunId) ==
    LET filePath == generateFileName(evalRunId)
        retained == retainedEntries(fs[indexFile], evalRunId)
        text == rewrittenIndex(retained.entries)
    IN  /\ cachedEvalStore # 0
        /\ lineCount(fs[indexFile]) <= MaxCrashLines
        /\ existsSync(fs, filePath)
        /\ retained.ok
        /\ \/ fs' = unlink(fs, filePath)
           \/ \E n \in cuts(text) :
                  fs' = writeFile(unlink(fs, filePath), indexFile, SubSeq(text, 1, n))
        /\ Crashed([op |-> "crash", during |-> "delete"])

\* the calls that write files, list, and the interruptions
NextCrash ==
    \/ GetEvalStore
    \/ \E evalRun \in EvalRuns : Save(evalRun)
    \/ \E query \in Queries : List(query)
    \/ \E evalRunId \in RunIds : Delete(evalRunId)
    \/ \E evalRun \in EvalRuns : SaveCrash(evalRun)
    \/ \E evalRunId \in RunIds : DeleteCrash(evalRunId)

SpecCrash == Init /\ [][NextCrash]_vars

----------------------------------------------------------------------------
(* Calls in flight together.  save and delete are async functions: each    *)
(* awaits its file-system calls one after the other, and between two of    *)
(* them a call of another caller may take its steps.  Each file-system     *)
(* call is one step.  Up to two calls are in flight; the callers go on to  *)
(* further calls when both have settled.                                   *)

\* the evalRunIds of calls in flight together: a third one, so that an entry
\* of neither call can stand in the index log
ConcIds == RunIds \cup { <<"c">> }

\* the runs saved by calls in flight together: one per evalRunId
ConcRuns ==
    { [key |-> [evalRunId |-> <<"a">>, actionRef |-> <<"x", LF>>],
       results |-> <<"q", QUOTE>>],
      [key |-> [evalRunId |-> <<"b">>, actionRef |-> <<>>],
       results |-> <<"p">>],
      [key |-> [evalRunId |-> <<"c">>, actionRef |-> <<>>],
       results |-> <<"p">>] }

\* the other caller
otherCaller(p) == CHOOSE q \in Procs : q # p

\* caller p may begin a call: the store is acquired and p has no call in
\* flight; the first call in flight is p's, the second q's
canBegin(p) ==
    /\ cachedEvalStore # 0
    /\ calls[p] = Idle
    /\ p = "q" => calls["p"] # Idle

\* what a step of a call in flight leaves alone; the history of calls run
\* one at a time ends with the first call that runs in steps
stepFrame ==
    /\ savesOnly' = FALSE
    /\ savedLog' = << >>
    /\ UNCHANGED <<rootExists, cachedEvalStore, nInstances, last, lastGot,
                   resetSince, crashes>>

\* save(evalRun) is called; hadEntry: whether the index log holds an entry
\* of the evalRunId at this point; wroteAt, appendedAt: the step the other
\* caller's call had reached when this call wrote its record file, appended
\* its key
BeginSave(p, evalRun) ==
    /\ canBegin(p)
    /\ lineCount(fs[indexFile]) < MaxLines
    /\ calls' = [calls EXCEPT ![p] =
                    [op |-> "save", pc |-> "writeFile", run |-> evalRun,
                     hadEntry |-> evalRun.key.evalRunId \in idsInIndex(fs[indexFile]),
                     wroteAt |-> "pending", appendedAt |-> "pending"]]
    /\ stepFrame
    /\ UNCHANGED <<fs, everSaved>>

\* save: await writeFile(record file)
SaveWriteFile(p) ==
    /\ calls[p].op = "save"
    /\ calls[p].pc = "writeFile"
    /\ fs' = writeFile(fs, generateFileName(calls[p].run.key.evalRunId),
                       JSONstringifyRun(calls[p].run))
    /\ calls' = [calls EXCEPT ![p].pc = "appendFile",
                              ![p].wroteAt = calls[otherCaller(p)].pc]
    /\ stepFrame
    /\ UNCHANGED everSaved

\* save: await appendFile(index log), after which the call settles
SaveAppendFile(p) ==
    /\ calls[p].op = "save"
    /\ calls[p].pc = "appendFile"
    /\ fs' = appendFile(fs, indexFile,
                        JSONstringifyKey(calls[p].run.key) \o INDEX_DELIMITER)
    /\ calls' = [calls EXCEPT ![p].pc = "done",
                              ![p].appendedAt = calls[otherCaller(p)].pc]
    /\ everSaved' = everSaved \cup {calls[p].run.key.evalRunId}
    /\ stepFrame

\* delete(evalRunId) is called: the existsSync check, Not Found at once
\* without a record file
BeginDelete(p, evalRunId) ==
    /\ canBegin(p)
    /\ calls' = [calls EXCEPT ![p] =
                    IF existsSync(fs, generateFileName(evalRunId))
                    THEN [op |-> "delete", pc |-> "unlink", evalRunId |-> evalRunId,
                          entries |-> << >>, error |-> "none"]
                    ELSE [op |-> "delete", pc |-> "done", evalRunId |-> evalRunId,
                          entries |-> << >>, error |-> "NotFound"]]
    /\ stepFrame
    /\ UNCHANGED <<fs, everSaved>>

\* mutant: the record file is left in place
DeleteUnlinkSkipped(p) ==
    /\ calls[p].op = "delete"
    /\ calls[p].pc = "unlink"
    /\ fs' = fs
    /\ calls' = [calls EXCEPT ![p].pc = "read"]
    /\ stepFrame
    /\ UNCHANGED everSaved

\* delete: unlink(record file); it fails when a call in flight has removed
\* the file since the check
DeleteUnlink(p) ==
    LET filePath == generateFileName(calls[p].evalRunId)
    IN  /\ calls[p].op = "delete"
        /\ calls[p].pc = "unlink"
        /\ IF existsSync(fs, filePath)
           THEN /\ fs' = unlink(fs, filePath)
                /\ calls' = [calls EXCEPT ![p].pc = "read"]
           ELSE /\ fs' = fs
                /\ calls' = [calls EXCEPT ![p].pc = "done", ![p].error = "ENOENT"]
        /\ stepFrame
        /\ UNCHANGED everSaved

\* deleteEvalRunFromIndex, the read pass: the line reader runs through the
\* index log and collects the lines to retain, or fails on a line
DeleteRead(p) ==
    LET retained == retainedEntries(fs[indexFile], calls[p].evalRunId)
    IN  /\ calls[p].op = "delete"
        /\ calls[p].pc = "read"
        /\ calls' = IF retained.ok
                    THEN [calls EXCEPT ![p].pc = "rewrite",
                                       ![p].entries = retained.entries]
                    ELSE [calls EXCEPT ![p].pc = "done",
                                       ![p].error = "MalformedData"]
        /\ stepFrame
        /\ UNCHANGED <<fs, everSaved>>

\* mutant: the write pass reads the index log again and writes the lines
\* to retain of what it holds then
DeleteRewriteRereading(p) ==
    /\ calls[p].op = "delete"
    /\ calls[p].pc = "rewrite"
    /\ fs' = writeFile(fs, indexFile,
                       rewrittenIndex(retainedEntries(fs[indexFile],
                                                      calls[p].evalRunId).entries))
    /\ calls' = [calls EXCEPT ![p].pc = "done", ![p].entries = << >>]
    /\ stepFrame
    /\ UNCHANGED everSaved

\* deleteEvalRunFromIndex, the write pass: writeFile(index log) with the
\* lines collected by the read pass, after which the call settles
DeleteRewrite(p) ==
    /\ calls[p].op = "delete"
    /\ calls[p].pc = "rewrite"
    /\ fs' = writeFile(fs, indexFile, rewrittenIndex(calls[p].entries))
    /\ calls' = [calls EXCEPT ![p].pc = "done", ![p].entries = << >>]
    /\ stepFrame
    /\ UNCHANGED everSaved

\* the calls in flight have settled and their callers go on
Return ==
    /\ \A p \in Procs : calls[p].pc \in {"idle", "done"}
    /\ \E p \in Procs : calls[p].pc = "done"
    /\ calls' = [p \in Procs |-> Idle]
    /\ UNCHANGED <<fs, everSaved>>
    /\ stepFrame

\* the store is acquired once, then calls run in steps
NextConc ==
    \/ cachedEvalStore = 0 /\ GetEvalStore
    \/ \E p \in Procs, evalRun \in ConcRuns : BeginSave(p, evalRun)
    \/ \E p \in Procs : SaveWriteFile(p)
    \/ \E p \in Procs : SaveAppendFile(p)
    \/ \E p \in Procs, evalRunId \in ConcIds : BeginDelete(p, evalRunId)
    \/ \E p \in Procs : DeleteUnlink(p)
    \/ \E p \in Procs : DeleteRead(p)
    \/ \E p \in Procs : DeleteRewrite(p)
    \/ Return

SpecConc == Init /\ [][NextConc]_vars

----------------------------------------------------------------------------
(* Properties *)

\* the keys of a key sequence whose evalRunId is not `evalRunId`
withoutId(keys, evalRunId) ==
    LET other(key) == key.evalRunId # evalRunId
    IN  SelectSeq(keys, other)

\* the keys of a key sequence whose actionRef is `actionRef`
withActionRef(keys, actionRef) ==
    LET same(key) == key.actionRef = actionRef
    IN  SelectSeq(keys, same)

\* C1 (Delete removes both): whenever delete(id) has succeeded, load(id)
\* returns absent and list() succeeds and returns no key whose evalRunId is
\* id, also when id was the only run in the store.
C1_DeleteRemovesBoth ==
    (last.op = "delete" /\ last.error = "none") =>
        /\ load(fs, last.evalRunId).status = "absent"
        /\ list(fs, NoQuery).ok
        /\ withoutId(list(fs, NoQuery).evalRunKeys, last.evalRunId)
               = list(fs, NoQuery).evalRunKeys

\* C2 (Index visibility): once save(r) has completed, in a store reached by
\* any sequence of completed save and delete calls, list() without a filter
\* succeeds and its result includes a key equal to r.key.
C2_IndexVisibility ==
    last.op = "save" =>
        /\ list(fs, NoQuery).ok
        /\ \E i \in 1..Len(list(fs, NoQuery).evalRunKeys) :
               list(fs, NoQuery).evalRunKeys[i] = last.run.key

\* C3 (Round-trip, last writer wins): right after save(r), whatever the
\* store held before, load(r.key.evalRunId) returns a run equal to r.
C3_RoundTrip ==
    last.op = "save" =>
        load(fs, last.run.key.evalRunId) = [status |-> "ok", run |-> last.run]

\* C3 witness: a save has overwritten the record file of an earlier save of
\* the same evalRunId with another key.
C3_Witness ==
    /\ last.op = "save"
    /\ savesOnly
    /\ \E i \in 1..(Len(savedLog) - 1) :
           /\ savedLog[i].evalRunId = last.run.key.evalRunId
           /\ savedLog[i] # last.run.key

\* C4 (Delete on absent fails): a delete(id) call made while no record file
\* of id exists ends with Not Found, for an id never saved and for an id
\* whose run was deleted before.
C4_DeleteAbsentFails ==
    [][\A id \in RunIds :
          (last'.op = "delete" /\ last'.evalRunId = id
              /\ generateFileName(id) \notin DOMAIN fs)
          => (last'.error = "NotFound" /\ fs' = fs)]_vars

\* C4 witness: delete(id) ended with Not Found for an id that was saved
\* before (its record file was removed by an earlier delete), while the
\* other id was never saved.
C4_Witness ==
    /\ last.op = "delete"
    /\ last.error = "NotFound"
    /\ last.evalRunId \in everSaved
    /\ everSaved # RunIds

\* C5 (Index rewrite preserves survivors): when delete(id) succeeds on a
\* store whose list() succeeds and holds an entry of another evalRunId,
\* list() afterwards returns the sequence it returned before without the
\* entries whose evalRunId is id, the others in their order.
C5_RewritePreservesSurvivors ==
    [][(/\ last'.op = "delete"
        /\ last'.error = "none"
        /\ list(fs, NoQuery).ok
        /\ withoutId(list(fs, NoQuery).evalRunKeys, last'.evalRunId) # <<>>)
       => list(fs', NoQuery) =
              [ok |-> TRUE,
               evalRunKeys |-> withoutId(list(fs, NoQuery).evalRunKeys,
                                         last'.evalRunId)]]_vars

\* C5 witness: a successful delete has left two entries with different keys.
C5_Witness ==
    /\ last.op = "delete"
    /\ last.error = "none"
    /\ list(fs, NoQuery).ok
    /\ Len(list(fs, NoQuery).evalRunKeys) = 2
    /\ list(fs, NoQuery).evalRunKeys[1] # list(fs, NoQuery).evalRunKeys[2]

\* C6 (Filter correctness): on a well-formed index log, list with the
\* filter actionRef = f returns exactly the entries whose actionRef is f, in
\* append order, for every string f; list() with no filter returns every
\* entry.
C6_FilterCorrectness ==
    (last.op = "list" /\ list(fs, NoQuery).ok) =>
        last.result =
            [ok |-> TRUE,
             evalRunKeys |->
                 IF last.query.hasActionRef
                 THEN withActionRef(list(fs, NoQuery).evalRunKeys,
                                    last.query.actionRef)
                 ELSE list(fs, NoQuery).evalRunKeys]

\* C7 (Empty store): on a store whose index log the constructor has just
\* created, list succeeds with no keys, with and without a filter, and load
\* returns absent for every id.
C7_EmptyStore ==
    (last.op = "getEvalStore" /\ last.createdIndex) =>
        /\ \A query \in Queries :
               list(fs, query) = [ok |-> TRUE, evalRunKeys |-> <<>>]
        /\ \A id \in RunIds : load(fs, id) = [status |-> "absent"]

\* C7 witness: getEvalStore() has built the first instance and created the
\* index log.
C7_Witness ==
    /\ last.op = "getEvalStore"
    /\ last.createdIndex
    /\ existsSync(fs, indexFile)

\* C8 (Duplicates are not deduplicated): while only saves have run, list()
\* returns one entry per completed save call, in call order.
C8_OneEntryPerSave ==
    (savesOnly /\ existsSync(fs, indexFile)) =>
        list(fs, NoQuery) = [ok |-> TRUE, evalRunKeys |-> savedLog]

\* C8 witness: three saves, two of them with the same key.
C8_Witness ==
    /\ savesOnly
    /\ Len(savedLog) = 3
    /\ \E i, j \in 1..3 : i < j /\ savedLog[i] = savedLog[j]

\* C9 (No partial listing): whenever the index log holds a line that is not
\* a valid serialized key, list fails as a whole, with and without a
\* filter, and returns no keys.
C9_NoPartialListing ==
    (existsSync(fs, indexFile) /\ malformedLines(fs[indexFile]) # {}) =>
        \A query \in Queries : ~list(fs, query).ok

\* C9 witness: after an interrupted save left a partial last line behind a
\* well-formed one, a list call failed.
C9_Witness ==
    /\ crashes > 0
    /\ last.op = "list"
    /\ ~last.result.ok
    /\ Len(readlineLines(fs[indexFile])) = 2
    /\ malformedLines(fs[indexFile]) = {2}

\* C10 (Singleton lifecycle): a getEvalStore() call returns the instance
\* the getEvalStore() call before it returned if no reset() ran in between,
\* and builds a new, different instance if one did.
C10_SingletonLifecycle ==
    [][(last'.op = "getEvalStore" /\ lastGot # 0) =>
          IF resetSince
          THEN last'.built /\ last'.instance # lastGot
          ELSE ~last'.built /\ last'.instance = lastGot]_vars

\* C10 witness: the instance built after a reset() was returned again.
C10_Witness ==
    /\ last.op = "getEvalStore"
    /\ ~last.built
    /\ last.instance = 2

\* the lines of the index log when it is the concatenation of entries, each
\* followed by one delimiter
entryLines(data) == IF data = <<>> THEN <<>> ELSE split(sliceLast(data))

\* whether the index log is exactly a concatenation of serialized keys, each
\* followed by one delimiter
wellFormedIndex(data) ==
    /\ data # <<>> => data[Len(data)] = LF
    /\ \A i \in 1..Len(entryLines(data)) :
           \E key \in EvalRunKeys : entryLines(data)[i] = JSONstringifyKey(key)

\* C11 (Index well-formedness): after every completed save or delete, calls
\* run one at a time from a fresh store, the index log is the concatenation
\* of serialized keys each followed by one delimiter, for every number of
\* lines a delete retains, zero included, and list() succeeds.
C11_IndexWellFormed ==
    last.op \in {"save", "delete"} =>
        /\ wellFormedIndex(fs[indexFile])
        /\ list(fs, NoQuery).ok

\* C12 (Index/record consistency under sequential use): after every save
\* or delete call run to completion, with success or with an error, one at
\* a time and with no interruption, the evalRunIds with an entry in the
\* index log are the evalRunIds with a record file.
C12_IndexRecordConsistency ==
    last.op \in {"save", "delete"} =>
        idsInIndex(fs[indexFile]) = idsWithRecord(fs)

\* the evalRunIds of the keys list() returns; none when it fails
listedIds(files) ==
    IF list(files, NoQuery).ok
    THEN {list(files, NoQuery).evalRunKeys[i].evalRunId :
              i \in 1..Len(list(files, NoQuery).evalRunKeys)}
    ELSE {}

\* caller p's save and the other caller's delete of another evalRunId have
\* both settled with success, and the save appended its key between the
\* read pass and the write pass of the delete
appendBetweenPasses(p) ==
    /\ calls[p].op = "save"
    /\ calls[p].pc = "done"
    /\ calls[otherCaller(p)].op = "delete"
    /\ calls[otherCaller(p)].pc = "done"
    /\ calls[otherCaller(p)].error = "none"
    /\ calls[otherCaller(p)].evalRunId # calls[p].run.key.evalRunId
    /\ calls[p].appendedAt = "rewrite"

\* the saved run is loadable and has no entry in the index log or in list()
loadableUnlisted(evalRun) ==
    /\ load(fs, evalRun.key.evalRunId) = [status |-> "ok", run |-> evalRun]
    /\ evalRun.key.evalRunId \notin idsInIndex(fs[indexFile])
    /\ evalRun.key.evalRunId \notin listedIds(fs)

\* C13 as stated (Lost append): when a save appends its key between the read
\* pass and the write pass of a delete of another id in flight and both
\* settle with success, the record file of the saved run exists, load
\* returns the run, the index log holds no entry of its evalRunId and
\* list() returns none.
C13_LostAppend ==
    \A p \in Procs : appendBetweenPasses(p) => loadableUnlisted(calls[p].run)

\* C13 amended (Lost append): the same for a save whose evalRunId had no
\* entry in the index log when the save was called; an entry of an earlier
\* save of that evalRunId is in the snapshot of the delete and is written
\* back.
C13_LostAppendOfNewId ==
    \A p \in Procs :
        (appendBetweenPasses(p) /\ ~calls[p].hadEntry)
            => loadableUnlisted(calls[p].run)

\* C13 witness: the append of a new evalRunId was lost to a delete that
\* retained an entry; list() succeeds and does not show the saved run.
C13_Witness ==
    \E p \in Procs :
        /\ appendBetweenPasses(p)
        /\ ~calls[p].hadEntry
        /\ list(fs, NoQuery).ok
        /\ list(fs, NoQuery).evalRunKeys # << >>
        /\ existsSync(fs, generateFileName(calls[p].run.key.evalRunId))

\* the index log ends with the entries of the keys k1 and k2, in this order
endsWith(data, k1, k2) ==
    LET tail == JSONstringifyKey(k1) \o INDEX_DELIMITER
                \o JSONstringifyKey(k2) \o INDEX_DELIMITER
    IN  /\ Len(data) >= Len(tail)
        /\ SubSeq(data, Len(data) - Len(tail) + 1, Len(data)) = tail

\* the saves of the two callers, of different evalRunIds, have both settled
twoSavesDone ==
    /\ \A p \in Procs : calls[p].op = "save" /\ calls[p].pc = "done"
    /\ calls["p"].run.key.evalRunId # calls["q"].run.key.evalRunId

\* C14 (Both appends land): once two saves of different evalRunIds have
\* both settled, their steps interleaved in any order and no delete in
\* flight with them, the index log holds a well-formed entry of each of the
\* two keys, in one of the two orders, both record files exist, and list()
\* succeeds and returns both keys.
C14_BothAppendsLand ==
    twoSavesDone =>
        /\ \/ endsWith(fs[indexFile], calls["p"].run.key, calls["q"].run.key)
           \/ endsWith(fs[indexFile], calls["q"].run.key, calls["p"].run.key)
        /\ \A p \in Procs :
               /\ existsSync(fs, generateFileName(calls[p].run.key.evalRunId))
               /\ list(fs, NoQuery).ok
               /\ \E i \in 1..Len(list(fs, NoQuery).evalRunKeys) :
                      list(fs, NoQuery).evalRunKeys[i] = calls[p].run.key

\* the last call was a save, run to its end or interrupted after the record
\* file was written
saveActed ==
    \/ last.op = "save"
    \/ last.op = "crash" /\ last.during = "save"

\* C15 (Save ordering and crash window): a save(r) interrupted after the
\* record write and before the append, for an evalRunId with no index entry
\* before, leaves load(r.key.evalRunId) = r and no entry of that evalRunId
\* in the index log or in list(); and wherever a save run alone stops, the
\* index log holds no entry of r's evalRunId while the record file is
\* missing.
C15_SaveOrdering ==
    /\ (/\ last.op = "crash"
        /\ last.during = "save"
        /\ last.appended = 0
        /\ ~last.hadEntry)
       => /\ load(fs, last.run.key.evalRunId) = [status |-> "ok", run |-> last.run]
          /\ last.run.key.evalRunId \notin idsInIndex(fs[indexFile])
          /\ last.run.key.evalRunId \notin listedIds(fs)
    /\ saveActed =>
           (last.run.key.evalRunId \in idsInIndex(fs[indexFile])
               => existsSync(fs, generateFileName(last.run.key.evalRunId)))

\* C15 witness: a save of an evalRunId with no entry was interrupted between
\* its two writes while the index log held an entry of the other evalRunId:
\* list() succeeds and shows that entry only.
C15_Witness ==
    /\ last.op = "crash"
    /\ last.during = "save"
    /\ last.appended = 0
    /\ ~last.hadEntry
    /\ list(fs, NoQuery).ok
    /\ list(fs, NoQuery).evalRunKeys # << >>
    /\ existsSync(fs, generateFileName(last.run.key.evalRunId))

\* C16 as stated (Failed delete changes nothing): whenever delete(id) ends
\* with an error, Not Found or a line of the index log that does not parse,
\* the record files and the index log are as they were before the call.
C16_FailedDeleteChangesNothing ==
    [][(last'.op = "delete" /\ last'.error # "none") => fs' = fs]_vars

\* C16 amended (Failed delete): whenever delete(id) ends with an error the
\* index log is as it was before the call; with Not Found the record files
\* are too; with a line of the index log that does not parse, the record
\* file of id, which existed, has been removed and every other file is as
\* it was.
C16_FailedDeleteKeepsIndex ==
    [][(last'.op = "delete" /\ last'.error # "none") =>
          /\ fs'[indexFile] = fs[indexFile]
          /\ last'.error = "NotFound" => fs' = fs
          /\ last'.error = "MalformedData" =>
                 /\ existsSync(fs, generateFileName(last'.evalRunId))
                 /\ fs' = unlink(fs, generateFileName(last'.evalRunId))]_vars

\* C16 witness: after an interrupted save left a partial line, a delete of
\* an evalRunId with an entry failed on that line: the entry is still in the
\* index log and the record file is gone.
C16_Witness ==
    /\ crashes > 0
    /\ last.op = "delete"
    /\ last.error = "MalformedData"
    /\ last.evalRunId \in idsInIndex(fs[indexFile])
    /\ ~existsSync(fs, generateFileName(last.evalRunId))
    /\ \E i \in malformedLines(fs[indexFile]) : readlineLines(fs[indexFile])[i] # << >>

\* caller p's save(r) and the other caller's delete(r.key.evalRunId) have
\* both settled with success
sameIdPairDone(p) ==
    /\ calls[p].op = "save"
    /\ calls[p].pc = "done"
    /\ calls[otherCaller(p)].op = "delete"
    /\ calls[otherCaller(p)].pc = "done"
    /\ calls[otherCaller(p)].error = "none"
    /\ calls[otherCaller(p)].evalRunId = calls[p].run.key.evalRunId

\* C17 as stated (Same-id save/delete interleaving): once one save(r) and
\* one delete(r.key.evalRunId) have both settled with success, their steps
\* interleaved in any order, the record file of the id exists if and only
\* if the index log holds an entry of the id.
C17_SameIdBothOrNeither ==
    \A p \in Procs :
        sameIdPairDone(p) =>
            (existsSync(fs, generateFileName(calls[p].run.key.evalRunId))
                <=> calls[p].run.key.evalRunId \in idsInIndex(fs[indexFile]))

\* C17 amended (Same-id save/delete interleaving): once both have settled
\* with success, the record file exists if and only if the save wrote it
\* after the unlink of the delete, and the index log holds an entry of the
\* id if and only if the save appended it after the write pass of the
\* delete.
C17_SameIdOutcome ==
    \A p \in Procs :
        sameIdPairDone(p) =>
            /\ existsSync(fs, generateFileName(calls[p].run.key.evalRunId))
                   <=> calls[p].wroteAt \in {"read", "rewrite", "done"}
            /\ calls[p].run.key.evalRunId \in idsInIndex(fs[indexFile])
                   <=> calls[p].appendedAt = "done"

\* C17 witness: the save wrote the record file before the unlink and
\* appended its key after the write pass: the index log holds an entry
\* whose record file is missing.
C17_Witness ==
    \E p \in Procs :
        /\ sameIdPairDone(p)
        /\ calls[p].wroteAt \in {"idle", "unlink"}
        /\ calls[p].appendedAt = "done"
        /\ calls[p].run.key.evalRunId \in idsInIndex(fs[indexFile])
        /\ ~existsSync(fs, generateFileName(calls[p].run.key.evalRunId))

\* C18 (Reads are pure): a load(id) or list(query) call changes no record
\* file and not the index log, whether it returns a value, returns absent
\* or fails; and a list (or load) call that follows a list (or load) call
\* with the same argument, no other call between them, gives the same
\* result.
C18_ReadsArePure ==
    [][(last'.op \in {"load", "list"}) =>
          /\ fs' = fs
          /\ (last.op = "list" /\ last'.op = "list" /\ last'.query = last.query)
                 => last'.result = last.result
          /\ (last.op = "load" /\ last'.op = "load"
                 /\ last'.evalRunId = last.evalRunId)
                 => last'.result = last.result]_vars

\* C18 witness: a list call has failed on a store where load returns a run
\* for one id and absent for the other.
C18_Witness ==
    /\ last.op = "list"
    /\ ~last.result.ok
    /\ \E id \in RunIds : load(fs, id).status = "ok"
    /\ \E id \in RunIds : load(fs, id).status = "absent"

\* C19 (Persisted data survive reset): reset() changes no file, and a
\* getEvalStore() call on a root whose index log exists, the one after a
\* reset() that builds a new instance included, leaves the index log and
\* the record files as they are, so list(query) and load(id) give what they
\* gave before.
C19_DataSurviveReset ==
    [][(\/ last'.op = "reset"
        \/ last'.op = "getEvalStore" /\ existsSync(fs, indexFile))
       => /\ fs' = fs
          /\ existsSync(fs, indexFile) =>
                 \A query \in Queries : list(fs', query) = list(fs, query)
          /\ \A id \in RunIds : load(fs', id) = load(fs, id)]_vars

\* C19 witness: after a reset(), getEvalStore() has built a second instance
\* on a root that holds two listed runs.
C19_Witness ==
    /\ last.op = "getEvalStore"
    /\ last.built
    /\ last.instance = 2
    /\ ~last.createdIndex
    /\ list(fs, NoQuery).ok
    /\ Len(list(fs, NoQuery).evalRunKeys) = 2
    /\ \A id \in RunIds : load(fs, id).status = "ok"

====
